---- MODULE Spec2Model ----
(***************************************************************************)
(* Model of src/server.js: the two tool handlers handleRegexSearch and     *)
(* handleRegexSearchDirectory, stepped at the granularity of one           *)
(* filesystem call or one RegExp.prototype.exec call.                      *)
(*                                                                         *)
(* Strings are sequences of one-character strings; file names are          *)
(* sequences of tokens ("a", ".", "txt"); paths are sequences of names.    *)
(***************************************************************************)
EXTENDS Integers, Sequences, FiniteSets, TLC

\* ---------------------------------------------------------------- bounds
\* Longest file content (in characters) enumerated for regex_search.
MaxContentLen == 3

\* Cap on the pushes of one per-line while loop; one more than any scan
\* whose cursor advances can need, so only a stalled loop reaches it.
MaxOcc == MaxContentLen + 2

\* ---------------------------------------------------------------- inputs
LF == "\n"

ContentChars == {"a", "b", LF}

Contents == UNION {[1..n -> ContentChars] : n \in 0..MaxContentLen}

Patterns ==
  { <<"a">>, <<"A">>, <<"a", "b">>, <<".">>,
    <<"a", "*">>, <<"a", "?">>, <<"b", "*", "?">>, <<"a", "*", "b">>,
    <<"(">>, <<"*">> }

\* An optional argument: given = FALSE is JavaScript's undefined.
Undefined == [given |-> FALSE, val |-> <<>>]

Given(v) == [given |-> TRUE, val |-> v]

FlagArgs ==
  { Undefined, Given(<<>>), Given(<<"g">>), Given(<<"i">>),
    Given(<<"g", "i">>), Given(<<"x">>), Given(<<"g", "g">>) }

\* ------------------------------------------------------- argument defaults
\* const { ..., flags = "g" } = args
FlagsOf(a) == IF a.flags.given THEN a.flags.val ELSE <<"g">>

\* fileExtensions = [".js", ".ts", ".txt", ".md", ".json"]
DefaultExtensions ==
  << <<".", "js">>, <<".", "ts">>, <<".", "txt">>, <<".", "md">>, <<".", "json">> >>

ExtensionsOf(a) ==
  IF a.fileExtensions.given THEN a.fileExtensions.val ELSE DefaultExtensions

\* ------------------------------------------------------------------ paths
Cwd == << <<"home">> >>

\* path.resolve: a relative path is taken from the working directory, then
\* "." segments are dropped and ".." removes the segment before it.
RECURSIVE NormalizeFrom(_, _, _)
NormalizeFrom(segs, i, acc) ==
  IF i > Len(segs) THEN acc
  ELSE IF segs[i] = <<".">> THEN NormalizeFrom(segs, i + 1, acc)
  ELSE IF segs[i] = <<".", ".">>
    THEN NormalizeFrom(segs, i + 1,
                       IF acc = <<>> THEN acc ELSE SubSeq(acc, 1, Len(acc) - 1))
  ELSE NormalizeFrom(segs, i + 1, Append(acc, segs[i]))

Resolve(p) == NormalizeFrom(IF p.abs THEN p.segs ELSE Cwd \o p.segs, 1, <<>>)

\* path.join(dir, file) for a name returned by readdirSync
Join(dir, file) == Append(dir, file)

\* path.extname: from the last "." of the name to its end; "" when there is
\* no ".", when the only "." is the first character, or for "..".
ExtName(name) ==
  LET dots == {i \in 1..Len(name) : name[i] = "."}
      k == CHOOSE i \in dots : \A j \in dots : j <= i
  IN IF dots = {} THEN <<>>
     ELSE IF k = 1 THEN <<>>
     ELSE IF name = <<".", ".">> THEN <<>>
     ELSE SubSeq(name, k, Len(name))

\* file.startsWith(".")
StartsWithDot(name) == Len(name) > 0 /\ name[1] = "."

\* !file.startsWith(".") && file !== "node_modules", negated
SkipDir_onlyHidden(name) == StartsWithDot(name)

SkipDir(name) == StartsWithDot(name) \/ name = <<"node_modules">>

\* fileExtensions.includes(ext)
Includes(seq, x) == \E i \in 1..Len(seq) : seq[i] = x

\* ------------------------------------------------------------ filesystem
\* A filesystem is a function from absolute paths to nodes.
Node(kind, ok, content, entries) ==
  [kind |-> kind, ok |-> ok, content |-> content, entries |-> entries]

FileNode(content) == Node("file", TRUE, content, <<>>)
UnreadableFile == Node("file", FALSE, <<>>, <<>>)
DirNode(entries) == Node("dir", TRUE, <<>>, entries)
UnlistableDir == Node("dir", FALSE, <<>>, <<>>)
DanglingLink == Node("dangling", FALSE, <<>>, <<>>)
OtherNode == Node("other", TRUE, <<>>, <<>>)

\* fs.existsSync: follows links, so a dangling link does not exist.
existsSync_always(f, p) == TRUE

existsSync(f, p) == p \in DOMAIN f /\ f[p].kind # "dangling"

\* fs.statSync throws for a missing entry or a dangling link.
StatThrows(f, p) == p \notin DOMAIN f \/ f[p].kind = "dangling"

\* fs.readFileSync(p, "utf-8") throws unless p is a readable regular file.
ReadThrows(f, p) == p \notin DOMAIN f \/ f[p].kind # "file" \/ ~f[p].ok

\* fs.readdirSync throws unless p is a listable directory.
ReaddirThrows(f, p) == p \notin DOMAIN f \/ f[p].kind # "dir" \/ ~f[p].ok

\* ------------------------------------------------------------------ split
\* fileContent.split("\n")
RECURSIVE SplitFrom(_, _, _)
SplitFrom(s, i, cur) ==
  IF i > Len(s) THEN <<cur>>
  ELSE IF s[i] = LF THEN <<cur>> \o SplitFrom(s, i + 1, <<>>)
  ELSE SplitFrom(s, i + 1, Append(cur, s[i]))

Split(s) == SplitFrom(s, 1, <<>>)

\* ----------------------------------------------------------------- RegExp
\* new RegExp(pattern, flags): the flags are checked first (every character
\* one of dgimsuvy, none repeated, not both u and v), then the pattern.
FlagChars == {"d", "g", "i", "m", "s", "u", "v", "y"}

FlagsValid(fl) ==
  /\ \A i \in 1..Len(fl) : fl[i] \in FlagChars
  /\ \A i, j \in 1..Len(fl) : i # j => fl[i] # fl[j]
  /\ ~(Includes(fl, "u") /\ Includes(fl, "v"))

Quantifiers == {"*", "?"}

\* The pattern grammar covered: single-character atoms ("." or a letter),
\* each optionally followed by * or ?, optionally made lazy by a further ?.
\* A quantifier with nothing to repeat and an unterminated "(" are errors.
RECURSIVE ParseFrom(_, _)
ParseFrom(pat, i) ==
  IF i > Len(pat) THEN [ok |-> TRUE, items |-> <<>>, err |-> ""]
  ELSE IF pat[i] \in Quantifiers
    THEN [ok |-> FALSE, items |-> <<>>, err |-> "Nothing to repeat"]
  ELSE IF pat[i] = "("
    THEN [ok |-> FALSE, items |-> <<>>, err |-> "Unterminated group"]
  ELSE
    LET hasQ == i + 1 <= Len(pat) /\ pat[i + 1] \in Quantifiers
        lazy == hasQ /\ i + 2 <= Len(pat) /\ pat[i + 2] = "?"
        next == i + 1 + (IF hasQ THEN 1 ELSE 0) + (IF lazy THEN 1 ELSE 0)
        rest == ParseFrom(pat, next)
        item == [atom |-> pat[i],
                 quant |-> IF hasQ THEN pat[i + 1] ELSE "1",
                 lazy |-> lazy]
    IN IF rest.ok
         THEN [ok |-> TRUE, items |-> <<item>> \o rest.items, err |-> ""]
         ELSE rest

\* The outcome of new RegExp(pattern, flags): ok, or the SyntaxError message.
Compile(pat, fl) ==
  IF ~FlagsValid(fl)
    THEN [ok |-> FALSE, items |-> <<>>,
          message |-> <<"Invalid flags supplied to RegExp constructor", fl>>]
  ELSE LET p == ParseFrom(pat, 1)
       IN IF p.ok
            THEN [ok |-> TRUE, items |-> p.items, message |-> <<>>]
            ELSE [ok |-> FALSE, items |-> <<>>,
                  message |-> <<"Invalid regular expression", pat, p.err>>]

\* Canonicalize under the i flag
Canonicalize(ch) ==
  IF ch = "a" THEN "A" ELSE IF ch = "b" THEN "B" ELSE ch

AtomMatches(atom, ch, ignoreCase) ==
  \/ atom = "." /\ ch # LF
  \/ atom # "." /\ IF ignoreCase THEN Canonicalize(atom) = Canonicalize(ch)
                                 ELSE atom = ch

\* Backtracking match of items[i..] against line at 0-based position p:
\* the end position of the first alternative that succeeds, or -1.
RECURSIVE MatchItems(_, _, _, _, _)
MatchItems(items, i, line, p, ic) ==
  IF i > Len(items) THEN p
  ELSE
    LET it == items[i]
        can == p < Len(line) /\ AtomMatches(it.atom, line[p + 1], ic)
        skip == MatchItems(items, i + 1, line, p, ic)
        one == IF can THEN MatchItems(items, i + 1, line, p + 1, ic) ELSE -1
        more == IF can THEN MatchItems(items, i, line, p + 1, ic) ELSE -1
        first(x, y) == IF x # -1 THEN x ELSE y
    IN CASE it.quant = "1" -> one
         [] it.quant = "?" -> IF it.lazy THEN first(skip, one) ELSE first(one, skip)
         [] it.quant = "*" -> IF it.lazy THEN first(skip, more) ELSE first(more, skip)

NoMatch == [found |-> FALSE, index |-> 0, end |-> 0]

\* RegExpBuiltinExec: a global regex starts at lastIndex, any other at 0;
\* the match is the leftmost one at or after the start.
\* (The flags d, u, v and y pass the constructor but are not among the
\* inputs; of the matching flags only g and i change a match here, since a
\* line holds no line feed and the patterns no anchors.)
Exec(items, fl, line, lastIdx) ==
  LET global == Includes(fl, "g")
      ic == Includes(fl, "i")
      from == IF global THEN lastIdx ELSE 0
      starts == {s \in from..Len(line) : MatchItems(items, 1, line, s, ic) # -1}
      s0 == CHOOSE s \in starts : \A t \in starts : s <= t
  IN IF starts = {} THEN NoMatch
     ELSE [found |-> TRUE, index |-> s0, end |-> MatchItems(items, 1, line, s0, ic)]

\* lastIndex after exec: a global regex moves it to the end of the match,
\* or back to 0 on failure; a non-global regex never writes it.
LastIndexAfter(fl, m, lastIdx) ==
  IF ~Includes(fl, "g") THEN lastIdx
  ELSE IF m.found THEN m.end ELSE 0

\* column: match.index + 1
Column_zeroBased(index) == index

Column(index) == index + 1

\* { matchText: match[0], column: match.index + 1 }
Occurrence(line, m) ==
  [matchText |-> SubSeq(line, m.index + 1, m.end), column |-> Column(m.index)]

\* lineNumber = index + 1
LineNumber(index) == index + 1

\* if (lineMatches.length > 0)
HasMatches_always(lm) == TRUE

HasMatches(lm) == Len(lm) > 0

\* { lineNumber, content: line, matches: lineMatches }
LineResult(index, line, lm) ==
  [lineNumber |-> LineNumber(index), content |-> line, matches |-> lm]

\* reduce((sum, m) => sum + m.matches.length, 0)
RECURSIVE SumMatches(_)
SumMatches(ms) ==
  IF ms = <<>> THEN 0 ELSE Len(Head(ms).matches) + SumMatches(Tail(ms))

\* ------------------------------------------------------------------ state
VARIABLES
  tool,          \* request.name
  args,          \* request.arguments
  fsys,          \* the filesystem the call runs against
  pc,            \* position of the handler
  resolved,      \* resolvedPath / resolvedDir
  lines,         \* fileContent.split("\n") of the file being scanned
  index,         \* forEach index of the line being scanned (0-based)
  lastIndex,     \* lineRegex.lastIndex
  lineMatches,   \* lineMatches of the line being scanned
  matches,       \* handleRegexSearch: matches
  fileMatches,   \* searchDirectory: fileMatches of the file being scanned
  results,       \* handleRegexSearchDirectory: results
  totalMatches,  \* handleRegexSearchDirectory: totalMatches
  callDir,       \* argument of the pending searchDirectory(dir) call
  stack,         \* active searchDirectory calls: [dir, files, i]
  response,      \* the value returned by the handler
  fsCalls        \* the filesystem calls made so far, in order

vars ==
  << tool, args, fsys, pc, resolved, lines, index, lastIndex, lineMatches,
     matches, fileMatches, results, totalMatches, callDir, stack, response,
     fsCalls >>

scanVars == << lines, index, lastIndex, lineMatches >>
walkVars == << fileMatches, results, totalMatches, callDir, stack >>

NoResponse == [isError |-> FALSE, text |-> <<>>]

\* { content: [{ type: "text", text }], isError: true }
Failure(text) == [isError |-> TRUE, text |-> text]

\* { content: [{ type: "text", text: JSON.stringify(result) }] }
Success(result) == [isError |-> FALSE, text |-> <<"JSON", result>>]

\* catch (error) { ... text: `Error: ${error.message}` ..., isError: true }
CaughtError(message) == Failure(<<"Error: ", message>>)

FsCall(op, p) == [op |-> op, path |-> p]

\* The compiled form of the call's pattern and flags.
Regex == Compile(args.pattern, FlagsOf(args))

\* The next result of lineRegex.exec(line) on the line being scanned.
CurLine == lines[index + 1]

CurMatch == Exec(Regex.items, FlagsOf(args), CurLine, lastIndex)

\* ------------------------------------------------------ handleRegexSearch
\* lines 100-116: resolve the path, return "File not found" if it is absent.
SearchStart ==
  /\ pc = "start"
  /\ tool = "regex_search"
  /\ LET rp == Resolve(args.filePath)
     IN /\ resolved' = rp
        /\ fsCalls' = Append(fsCalls, FsCall("existsSync", rp))
        /\ IF ~existsSync(fsys, rp)
             THEN /\ response' = Failure(<<"File not found: ", rp>>)
                  /\ pc' = "done"
             ELSE /\ response' = response
                  /\ pc' = "read"
  /\ UNCHANGED << tool, args, fsys, scanVars, matches, walkVars >>

\* lines 116-117: read the whole file and split it into lines.
SearchRead ==
  /\ pc = "read"
  /\ fsCalls' = Append(fsCalls, FsCall("readFileSync", resolved))
  /\ IF ReadThrows(fsys, resolved)
       THEN /\ response' = CaughtError(<<"read failed", resolved>>)
            /\ pc' = "done"
            /\ lines' = lines
       ELSE /\ lines' = Split(fsys[resolved].content)
            /\ pc' = "compile"
            /\ response' = response
  /\ UNCHANGED << tool, args, fsys, resolved, index, lastIndex, lineMatches,
                  matches, walkVars >>

\* lines 119-120: const regex = new RegExp(pattern, flags); matches = [].
SearchCompile ==
  /\ pc = "compile"
  /\ IF Regex.ok
       THEN /\ pc' = "line"
            /\ response' = response
       ELSE /\ response' = CaughtError(Regex.message)
            /\ pc' = "done"
  /\ matches' = <<>>
  /\ index' = 0
  /\ UNCHANGED << tool, args, fsys, resolved, lines, lastIndex, lineMatches,
                  walkVars, fsCalls >>

\* lines 122-127: start of the forEach callback, a fresh lineRegex.
SearchNewLine ==
  /\ pc = "line"
  /\ IF Regex.ok
       THEN /\ pc' = "exec"
            /\ response' = response
       ELSE /\ response' = CaughtError(Regex.message)
            /\ pc' = "done"
  /\ lineMatches' = <<>>
  /\ lastIndex' = 0
  /\ UNCHANGED << tool, args, fsys, resolved, lines, index, matches,
                  walkVars, fsCalls >>

\* lines 129-143: one evaluation of the while condition.  A match is pushed
\* and the loop repeats; null ends the loop, the line is recorded if it has
\* matches, and forEach moves to the next line.
SearchExec ==
  /\ pc = "exec"
  /\ CurMatch.found => Len(lineMatches) < MaxOcc
  /\ lastIndex' = LastIndexAfter(FlagsOf(args), CurMatch, lastIndex)
  /\ IF CurMatch.found
       THEN /\ lineMatches' = Append(lineMatches, Occurrence(CurLine, CurMatch))
            /\ UNCHANGED << matches, index, pc >>
       ELSE /\ matches' = IF HasMatches(lineMatches)
                            THEN Append(matches,
                                        LineResult(index, CurLine, lineMatches))
                            ELSE matches
            /\ index' = index + 1
            /\ pc' = IF index + 1 < Len(lines) THEN "line" ELSE "summary"
            /\ lineMatches' = lineMatches
  /\ UNCHANGED << tool, args, fsys, resolved, lines, walkVars, response,
                  fsCalls >>

\* lines 145-160: build and return the result.
SearchSummary ==
  /\ pc = "summary"
  /\ tool = "regex_search"
  /\ response' = Success([file |-> resolved,
                          pattern |-> args.pattern,
                          flags |-> FlagsOf(args),
                          totalMatches |-> SumMatches(matches),
                          results |-> matches])
  /\ pc' = "done"
  /\ UNCHANGED << tool, args, fsys, resolved, scanVars, matches, walkVars,
                  fsCalls >>

\* ---------------------------------------------- handleRegexSearchDirectory
Top == stack[Len(stack)]

\* forEach moves on to the next entry of the innermost searchDirectory call.
AdvanceTop(stk) == [stk EXCEPT ![Len(stk)].i = @ + 1]

\* lines 176-200: resolve the directory, return "Directory not found" if it
\* is absent, otherwise start the walk at the root.
DirStart ==
  /\ pc = "start"
  /\ tool = "regex_search_directory"
  /\ LET rd == Resolve(args.dirPath)
     IN /\ resolved' = rd
        /\ callDir' = rd
        /\ fsCalls' = Append(fsCalls, FsCall("existsSync", rd))
        /\ IF ~existsSync(fsys, rd)
             THEN /\ response' = Failure(<<"Directory not found: ", rd>>)
                  /\ pc' = "done"
             ELSE /\ response' = response
                  /\ pc' = "readdir"
  /\ results' = <<>>
  /\ totalMatches' = 0
  /\ UNCHANGED << tool, args, fsys, scanVars, matches, fileMatches, stack >>

\* lines 202-203 (and the call sites 212, 263): searchDirectory(dir) lists
\* the directory; a listing error reaches the handler's catch (283-293).
DirList ==
  /\ pc = "readdir"
  /\ fsCalls' = Append(fsCalls, FsCall("readdirSync", callDir))
  /\ IF ReaddirThrows(fsys, callDir)
       THEN /\ response' = CaughtError(<<"readdir failed", callDir>>)
            /\ pc' = "done"
            /\ stack' = stack
       ELSE /\ stack' = Append(stack, [dir |-> callDir,
                                       files |-> fsys[callDir].entries,
                                       i |-> 1])
            /\ pc' = "entry"
            /\ response' = response
  /\ UNCHANGED << tool, args, fsys, resolved, scanVars, matches, fileMatches,
                  results, totalMatches, callDir >>

\* lines 205-216: one forEach callback up to the decision what the entry is.
\* A stat error reaches the handler's catch (283-293).
DirEntry ==
  /\ pc = "entry"
  /\ Top.i <= Len(Top.files)
  /\ LET file == Top.files[Top.i]
         filePath == Join(Top.dir, file)
     IN /\ fsCalls' = Append(fsCalls, FsCall("statSync", filePath))
        /\ IF StatThrows(fsys, filePath)
             THEN /\ response' = CaughtError(<<"stat failed", filePath>>)
                  /\ pc' = "done"
                  /\ UNCHANGED << stack, callDir >>
           ELSE IF fsys[filePath].kind = "dir"
             THEN /\ stack' = AdvanceTop(stack)
                  /\ callDir' = IF SkipDir(file) THEN callDir ELSE filePath
                  /\ pc' = IF SkipDir(file) THEN "entry" ELSE "readdir"
                  /\ response' = response
           ELSE IF fsys[filePath].kind = "file"
                   /\ Includes(ExtensionsOf(args), ExtName(file))
             THEN /\ pc' = "readfile"
                  /\ UNCHANGED << stack, callDir, response >>
           ELSE /\ stack' = AdvanceTop(stack)
                /\ UNCHANGED << pc, callDir, response >>
  /\ UNCHANGED << tool, args, fsys, resolved, scanVars, matches, fileMatches,
                  results, totalMatches >>

\* lines 260-261: forEach is exhausted and searchDirectory returns, to the
\* forEach of its caller or, for the root, to line 265.
DirReturn ==
  /\ pc = "entry"
  /\ Top.i > Len(Top.files)
  /\ stack' = SubSeq(stack, 1, Len(stack) - 1)
  /\ pc' = IF Len(stack) = 1 THEN "summary" ELSE "entry"
  /\ UNCHANGED << tool, args, fsys, resolved, scanVars, matches, fileMatches,
                  results, totalMatches, callDir, response, fsCalls >>

\* lines 255-257: the inner catch drops the error and the callback ends.
SkipFile_rethrow ==
  /\ response' = CaughtError(<<"rethrown">>)
  /\ pc' = "done"
  /\ stack' = stack

SkipFile ==
  /\ stack' = AdvanceTop(stack)
  /\ pc' = "entry"
  /\ response' = response

\* lines 217-220: read the file and split it, inside the inner try.
DirRead ==
  /\ pc = "readfile"
  /\ LET filePath == Join(Top.dir, Top.files[Top.i])
     IN /\ fsCalls' = Append(fsCalls, FsCall("readFileSync", filePath))
        /\ IF ReadThrows(fsys, filePath)
             THEN /\ SkipFile
                  /\ UNCHANGED << lines, index, fileMatches >>
             ELSE /\ lines' = Split(fsys[filePath].content)
                  /\ index' = 0
                  /\ fileMatches' = <<>>
                  /\ pc' = "dline"
                  /\ UNCHANGED << stack, response >>
  /\ UNCHANGED << tool, args, fsys, resolved, lastIndex, lineMatches, matches,
                  results, totalMatches, callDir >>

\* lines 222-226: start of the per-line callback; new RegExp is inside the
\* inner try, so its SyntaxError is dropped by the inner catch.
DirNewLine ==
  /\ pc = "dline"
  /\ IF Regex.ok
       THEN /\ pc' = "dexec"
            /\ UNCHANGED << stack, response >>
       ELSE SkipFile
  /\ lineMatches' = <<>>
  /\ lastIndex' = 0
  /\ UNCHANGED << tool, args, fsys, resolved, lines, index, matches,
                  fileMatches, results, totalMatches, callDir, fsCalls >>

\* totalMatches += lineMatches.length
AddToTotal_perLine(total, lm) == total + 1

AddToTotal(total, lm) == total + Len(lm)

\* lines 228-243: one evaluation of the while condition, as in SearchExec;
\* at the end of a line with matches the running total is increased.
DirExec ==
  /\ pc = "dexec"
  /\ CurMatch.found => Len(lineMatches) < MaxOcc
  /\ lastIndex' = LastIndexAfter(FlagsOf(args), CurMatch, lastIndex)
  /\ IF CurMatch.found
       THEN /\ lineMatches' = Append(lineMatches, Occurrence(CurLine, CurMatch))
            /\ UNCHANGED << fileMatches, totalMatches, index, pc >>
       ELSE /\ fileMatches' = IF HasMatches(lineMatches)
                                THEN Append(fileMatches,
                                            LineResult(index, CurLine, lineMatches))
                                ELSE fileMatches
            /\ totalMatches' = IF HasMatches(lineMatches)
                                 THEN AddToTotal(totalMatches, lineMatches)
                                 ELSE totalMatches
            /\ index' = index + 1
            /\ pc' = IF index + 1 < Len(lines) THEN "dline" ELSE "endfile"
            /\ lineMatches' = lineMatches
  /\ UNCHANGED << tool, args, fsys, resolved, lines, matches, results, callDir,
                  stack, response, fsCalls >>

\* { file: filePath, matchCount: reduce(...), results: fileMatches }
FileResult(filePath, fm) ==
  [file |-> filePath, matchCount |-> SumMatches(fm), results |-> fm]

\* lines 245-254: record the file if any line matched; the callback ends.
DirEndFile ==
  /\ pc = "endfile"
  /\ results' = IF Len(fileMatches) > 0
                  THEN Append(results,
                              FileResult(Join(Top.dir, Top.files[Top.i]),
                                         fileMatches))
                  ELSE results
  /\ stack' = AdvanceTop(stack)
  /\ pc' = "entry"
  /\ UNCHANGED << tool, args, fsys, resolved, scanVars, matches, fileMatches,
                  totalMatches, callDir, response, fsCalls >>

\* lines 265-282: build and return the result.
DirSummary ==
  /\ pc = "summary"
  /\ tool = "regex_search_directory"
  /\ response' = Success([directory |-> resolved,
                          pattern |-> args.pattern,
                          flags |-> FlagsOf(args),
                          extensions |-> ExtensionsOf(args),
                          filesMatched |-> Len(results),
                          totalMatches |-> totalMatches,
                          results |-> results])
  /\ pc' = "done"
  /\ UNCHANGED << tool, args, fsys, resolved, scanVars, matches, walkVars,
                  fsCalls >>

\* ------------------------------------------------------------ input trees
Proj == <<"proj">>
Cfg == <<".", "cfg">>
Dead == <<"dead">>
Ftxt == <<"f", ".", "txt">>
Git == <<".", "git">>
Atxt == <<"a", ".", "txt">>
Lib == <<"lib">>
Ln == <<"ln">>
NodeModules == <<"node_modules">>
Zmd == <<"z", ".", "md">>
Htxt == <<"h", ".", "txt">>
Bjs == <<"b", ".", "js">>
Cbin == <<"c", ".", "bin">>
DotJson == <<".", "json">>
Sock == <<"sock">>
Mjs == <<"m", ".", "js">>
Ctxt == <<"c", ".", "txt">>

Restrict(f, S) == [x \in S |-> f[x]]

\* The working directory for regex_search: one file f.txt, a dangling link.
FileFs(node) ==
  (Cwd :> DirNode(<<Dead, Ftxt>>))
  @@ (Cwd \o <<Dead>> :> DanglingLink)
  @@ (Cwd \o <<Ftxt>> :> node)

FileNodes == {FileNode(c) : c \in Contents} \cup {UnreadableFile}

DirContents ==
  { <<"a", "b", "a", LF, "a">>, <<"b", LF, "a", "b">> }

Faults ==
  { "none", "unreadable_a", "unreadable_b", "unreadable_z", "dangling",
    "unlistable" }

\* The working directory for regex_search_directory:
\*   proj/.git/h.txt  proj/a.txt  proj/lib/{b.js, c.bin, .json, sock}
\*   [proj/ln -> nowhere]  proj/node_modules/m.js  proj/z.md
\*   .cfg/c.txt  dead -> nowhere
\* listed in that order, with one fault at most.
Tree(ca, cb, fault) ==
  LET P == Cwd \o <<Proj>>
      all ==
        (Cwd :> DirNode(<<Cfg, Dead, Proj>>))
        @@ (Cwd \o <<Cfg>> :> DirNode(<<Ctxt>>))
        @@ (Cwd \o <<Cfg, Ctxt>> :> FileNode(<<"a">>))
        @@ (Cwd \o <<Dead>> :> DanglingLink)
        @@ (P :> DirNode(IF fault = "dangling"
                           THEN <<Git, Atxt, Lib, Ln, NodeModules, Zmd>>
                           ELSE <<Git, Atxt, Lib, NodeModules, Zmd>>))
        @@ (P \o <<Git>> :> DirNode(<<Htxt>>))
        @@ (P \o <<Git, Htxt>> :> FileNode(<<"a">>))
        @@ (P \o <<Atxt>> :> IF fault = "unreadable_a" THEN UnreadableFile
                                                       ELSE FileNode(ca))
        @@ (P \o <<Lib>> :> IF fault = "unlistable"
                              THEN UnlistableDir
                              ELSE DirNode(<<Bjs, Cbin, DotJson, Sock>>))
        @@ (P \o <<Lib, Bjs>> :> IF fault = "unreadable_b" THEN UnreadableFile
                                                           ELSE FileNode(cb))
        @@ (P \o <<Lib, Cbin>> :> FileNode(<<"a">>))
        @@ (P \o <<Lib, DotJson>> :> FileNode(<<"a">>))
        @@ (P \o <<Lib, Sock>> :> OtherNode)
        @@ (P \o <<Ln>> :> DanglingLink)
        @@ (P \o <<NodeModules>> :> DirNode(<<Mjs>>))
        @@ (P \o <<NodeModules, Mjs>> :> FileNode(<<"a">>))
        @@ (P \o <<Zmd>> :> IF fault = "unreadable_z" THEN UnreadableFile
                                                      ELSE FileNode(<<"a", "b">>))
  IN Restrict(all, (DOMAIN all)
                     \ (IF fault = "dangling" THEN {} ELSE {P \o <<Ln>>}))

Trees == {Tree(ca, cb, f) : ca \in DirContents, cb \in DirContents, f \in Faults}

BaseTree == Tree(<<"a", "b", "a", LF, "a">>, <<"b", LF, "a", "b">>, "none")

Rel(segs) == [abs |-> FALSE, segs |-> segs]
Abs(segs) == [abs |-> TRUE, segs |-> segs]

ExtArgs == { Undefined, Given(<< <<".", "txt">>, <<".", "bin">> >>) }

\* regex_search calls: every file node under the plain path, and the other
\* paths (missing, dangling, a directory, "..") against one file.
SearchCalls ==
  {<<Rel(<<Ftxt>>), FileFs(n)>> : n \in FileNodes}
  \cup {<<p, FileFs(FileNode(<<"a">>))>> :
          p \in { Rel(<<<<"nope">>>>), Rel(<<Dead>>), Rel(<<<<".">>>>),
                  Abs(Cwd \o <<<<"x">>, <<".", ".">>, Ftxt>>),
                  Abs(<<<<"x">>, <<".", ".">>, <<"nope">>>>) }}

\* regex_search_directory calls: every tree under the plain path, and the
\* other paths (missing, dangling, a file, a hidden root, "..") on one tree.
DirCalls ==
  {<<Rel(<<Proj>>), t>> : t \in Trees}
  \cup {<<p, BaseTree>> :
          p \in { Rel(<<<<"nope">>>>), Rel(<<Dead>>), Rel(<<Proj, Atxt>>),
                  Rel(<<Cfg>>), Rel(<<Proj, NodeModules>>),
                  Abs(Cwd \o <<<<"x">>, <<".", ".">>, Proj>>) }}

\* ------------------------------------------------------------------- spec
InitCommon ==
  /\ pc = "start"
  /\ resolved = <<>>
  /\ lines = <<>>
  /\ index = 0
  /\ lastIndex = 0
  /\ lineMatches = <<>>
  /\ matches = <<>>
  /\ fileMatches = <<>>
  /\ results = <<>>
  /\ totalMatches = 0
  /\ callDir = <<>>
  /\ stack = <<>>
  /\ response = NoResponse
  /\ fsCalls = <<>>

InitSearch ==
  /\ tool = "regex_search"
  /\ \E c \in SearchCalls, pat \in Patterns, fl \in FlagArgs :
       /\ args = [pattern |-> pat, filePath |-> c[1], flags |-> fl]
       /\ fsys = c[2]

InitDirectory ==
  /\ tool = "regex_search_directory"
  /\ \E c \in DirCalls, pat \in Patterns, fl \in FlagArgs, ex \in ExtArgs :
       /\ args = [pattern |-> pat, dirPath |-> c[1], fileExtensions |-> ex,
                  flags |-> fl]
       /\ fsys = c[2]

Init == InitCommon /\ (InitSearch \/ InitDirectory)

Next ==
  \/ SearchStart
  \/ SearchRead
  \/ SearchCompile
  \/ SearchNewLine
  \/ SearchExec
  \/ SearchSummary
  \/ DirStart
  \/ DirList
  \/ DirEntry
  \/ DirReturn
  \/ DirRead
  \/ DirNewLine
  \/ DirExec
  \/ DirEndFile
  \/ DirSummary

Spec == Init /\ [][Next]_vars

TypeOK ==
  /\ pc \in {"start", "read", "compile", "line", "exec", "summary", "readdir",
             "entry", "readfile", "dline", "dexec", "endfile", "done"}
  /\ totalMatches \in Nat
  /\ Len(lineMatches) <= MaxOcc

\* ============================================================ properties
\* Vocabulary of the properties, stated independently of the handlers.

Global == Includes(FlagsOf(args), "g")
IgnoreCase == Includes(FlagsOf(args), "i")
IsSearch == tool = "regex_search"
IsDirectory == tool = "regex_search_directory"
Returned == pc = "done"
ReturnedSummary == pc = "done" /\ ~response.isError
Summary == response.text[2]

\* The target path of the call, resolved.
Target == Resolve(IF IsSearch THEN args.filePath ELSE args.dirPath)

TargetExists == Target \in DOMAIN fsys /\ fsys[Target].kind # "dangling"

\* The set of end positions of the matches of items[i..] that start at p:
\* the language of the pattern, without any preference among alternatives.
RECURSIVE Ends(_, _, _, _, _)
Ends(items, i, line, p, ic) ==
  IF i > Len(items) THEN {p}
  ELSE
    LET it == items[i]
        can == p < Len(line) /\ AtomMatches(it.atom, line[p + 1], ic)
        skip == Ends(items, i + 1, line, p, ic)
        one == IF can THEN Ends(items, i + 1, line, p + 1, ic) ELSE {}
        more == IF can THEN Ends(items, i, line, p + 1, ic) ELSE {}
    IN CASE it.quant = "1" -> one
         [] it.quant = "?" -> one \cup skip
         [] it.quant = "*" -> more \cup skip

\* The positions of a line at which some match of the call's pattern starts.
MatchStarts(line) ==
  {s \in 0..Len(line) : Ends(Regex.items, 1, line, s, IgnoreCase) # {}}

\* Every LineResult recorded so far, finished files included.
RecordedLineResults ==
  {matches[k] : k \in 1..Len(matches)}
  \cup {fileMatches[k] : k \in 1..Len(fileMatches)}
  \cup UNION {{results[f].results[k] : k \in 1..Len(results[f].results)} :
                f \in 1..Len(results)}

CallsOf(op) == {fsCalls[k].path : k \in {j \in 1..Len(fsCalls) : fsCalls[j].op = op}}

\* ---------------------------------------------------------------------- C1
\* C1: an invalid pattern or an unrecognized flag is fatal in both tools: on
\* a readable file, and on a directory in which a file with an accepted
\* extension was reached, the call returns a failure value carrying the
\* compile error, never a summary.
C1_CompileErrorFatal ==
  (/\ Returned
   /\ ~Regex.ok
   /\ \/ IsSearch /\ TargetExists /\ ~ReadThrows(fsys, Target)
      \/ IsDirectory /\ TargetExists /\ CallsOf("readFileSync") # {})
  => /\ response.isError
     /\ IsSearch => response.text = <<"Error: ", Regex.message>>

\* ---------------------------------------------------------------------- C2
\* C2: without the global flag the per-line scan reports at most one
\* occurrence on a line, in both tools.
C2_AtMostOnePerLine ==
  ~Global =>
    /\ Len(lineMatches) <= 1
    /\ \A lr \in RecordedLineResults : Len(lr.matches) <= 1

\* ---------------------------------------------------------------------- C3
\* C3: with the global flag, a step of the per-line scan that finds a
\* zero-length match leaves the cursor at least one character further on.
C3_CursorAdvancesPastEmptyMatch ==
  [][(/\ pc \in {"exec", "dexec"}
      /\ Global
      /\ CurMatch.found
      /\ CurMatch.end = CurMatch.index)
     => lastIndex' > lastIndex]_vars

\* ---------------------------------------------------------------------- C4
\* C4: when the root is a listable directory and the pattern compiles, a
\* directory search returns a summary whatever faults the entries below
\* the root have.
C4_EntryFaultsTolerated ==
  (/\ IsDirectory
   /\ Returned
   /\ Regex.ok
   /\ TargetExists
   /\ ~ReaddirThrows(fsys, Target))
  => ~response.isError

\* ---------------------------------------------------------------------- C6
\* C6: when the resolved target does not exist, both tools return a failure
\* whose message carries the resolved path, and the existence check is the
\* only filesystem call made.
C6_NotFoundBeforeRead ==
  (Returned /\ ~TargetExists) =>
    /\ response.isError
    /\ Len(response.text) = 2
    /\ response.text[1] = (IF IsSearch THEN "File not found: "
                                       ELSE "Directory not found: ")
    /\ response.text[2] = Target
    /\ fsCalls = <<FsCall("existsSync", Target)>>

C6_Witness ==
  /\ IsSearch
  /\ Returned
  /\ ~TargetExists
  /\ args.filePath.abs
  /\ Target # args.filePath.segs

\* ---------------------------------------------------------------------- C7
\* C7: with the global flag, the occurrences recorded for a line are exactly
\* the successive non-overlapping matches from left to right: each has a
\* non-empty matchText that is the text of the line at its column and a
\* match of the pattern, column = 0-based start + 1, columns strictly
\* increase without overlap, and no match of the pattern starts outside
\* the recorded occurrences.
OccStart(o) == o.column - 1
OccEnd(o) == o.column - 1 + Len(o.matchText)

C7_LineResultOK(lr) ==
  LET occ == lr.matches
      line == lr.content
  IN /\ \A j \in 1..Len(occ) :
          /\ occ[j].column >= 1
          /\ Len(occ[j].matchText) > 0
          /\ OccEnd(occ[j]) <= Len(line)
          /\ SubSeq(line, occ[j].column, OccEnd(occ[j])) = occ[j].matchText
          /\ OccEnd(occ[j])
               \in Ends(Regex.items, 1, line, OccStart(occ[j]), IgnoreCase)
     /\ \A j \in 1..(Len(occ) - 1) :
          /\ occ[j].column < occ[j + 1].column
          /\ OccEnd(occ[j]) <= OccStart(occ[j + 1])
     /\ \A s \in MatchStarts(line) :
          \E j \in 1..Len(occ) : OccStart(occ[j]) <= s /\ s < OccEnd(occ[j])

C7_GlobalOccurrences ==
  Global => \A lr \in RecordedLineResults : C7_LineResultOK(lr)

C7_Witness ==
  /\ Global
  /\ IgnoreCase
  /\ \E lr \in RecordedLineResults :
       /\ Len(lr.matches) = 2
       /\ lr.matches[1].column = 1
       /\ lr.matches[2].column = 3
       /\ lr.matches[2].matchText # args.pattern

\* ---------------------------------------------------------------------- C8
\* C8: at every point of a file scan the LineResults recorded for the file
\* are, in increasing 1-based line order and with the unmodified line as
\* content, exactly the lines scanned so far on which some match of the
\* pattern starts; the lines are the content split at line feeds.
RECURSIVE JoinLF(_)
JoinLF(ls) ==
  IF Len(ls) = 1 THEN ls[1] ELSE ls[1] \o <<LF>> \o JoinLF(Tail(ls))

C8_ScanOK(content, recorded) ==
  /\ JoinLF(lines) = content
  /\ \A i \in 1..Len(lines) : \A j \in 1..Len(lines[i]) : lines[i][j] # LF
  /\ \A k \in 1..Len(recorded) :
       /\ recorded[k].lineNumber \in 1..index
       /\ recorded[k].content = lines[recorded[k].lineNumber]
       /\ k > 1 => recorded[k - 1].lineNumber < recorded[k].lineNumber
  /\ \A i \in 1..index :
       (MatchStarts(lines[i]) # {})
         <=> (\E k \in 1..Len(recorded) : recorded[k].lineNumber = i)

C8_LineResultsPerLine ==
  /\ (IsSearch /\ (pc \in {"line", "exec", "summary"} \/ ReturnedSummary))
       => C8_ScanOK(fsys[resolved].content, matches)
  /\ pc \in {"dline", "dexec", "endfile"}
       => C8_ScanOK(fsys[Join(Top.dir, Top.files[Top.i])].content, fileMatches)

C8_Witness ==
  /\ IsSearch
  /\ ReturnedSummary
  /\ Len(lines) = 2
  /\ Len(Summary.results) = 2
  /\ Summary.results[2].lineNumber = 2
  /\ Summary.results[1].content # Summary.results[2].content

\* ---------------------------------------------------------------------- C9
\* C9: in a directory walk every file read, and every file in the output,
\* has a name ending in one of the accepted extensions and lies below the
\* root through directories none of which is hidden (leading ".") or named
\* node_modules; no such directory is ever listed.
IsPrefix(p, q) == Len(p) <= Len(q) /\ SubSeq(q, 1, Len(p)) = p

IsSuffix(e, name) ==
  Len(e) <= Len(name) /\ SubSeq(name, Len(name) - Len(e) + 1, Len(name)) = e

HiddenOrDependency(name) == name[1] = "." \/ name = <<"node_modules">>

\* The names on the way from root (excluded) down to p (included).
Below(root, p) == SubSeq(p, Len(root) + 1, Len(p))

DirOKFrom(root, p) ==
  /\ IsPrefix(root, p)
  /\ \A j \in 1..Len(Below(root, p)) : ~HiddenOrDependency(Below(root, p)[j])

FileOKFrom(root, p) ==
  /\ Len(p) > Len(root)
  /\ DirOKFrom(root, SubSeq(p, 1, Len(p) - 1))
  /\ \E j \in 1..Len(ExtensionsOf(args)) :
       IsSuffix(ExtensionsOf(args)[j], p[Len(p)])

C9_DirOK(p) == DirOKFrom(resolved, p)

C9_FileOK(p) == FileOKFrom(resolved, p)

C9_OnlyEligibleFilesRead ==
  IsDirectory =>
    /\ \A p \in CallsOf("readFileSync") : C9_FileOK(p)
    /\ \A p \in CallsOf("readdirSync") : C9_DirOK(p)
    /\ \A f \in 1..Len(results) : C9_FileOK(results[f].file)

C9_Witness ==
  /\ IsDirectory
  /\ ReturnedSummary
  /\ resolved \o <<Git>> \in CallsOf("statSync")
  /\ resolved \o <<NodeModules>> \in CallsOf("statSync")
  /\ resolved \o <<Lib, DotJson>> \in CallsOf("statSync")
  /\ Len(results) = 3

\* --------------------------------------------------------------------- C10
\* C10: the counts of a returned summary agree: matchCount is the sum of the
\* occurrence counts of the file's LineResults, totalMatches is the sum of
\* the matchCounts, filesMatched is the number of FileResults, no FileResult
\* is without a LineResult and no LineResult without an occurrence; for
\* regex_search totalMatches is the sum of the occurrence counts.
RECURSIVE SumSeq(_)
SumSeq(ns) == IF ns = <<>> THEN 0 ELSE Head(ns) + SumSeq(Tail(ns))

SumOver(seq, F(_)) == SumSeq([k \in 1..Len(seq) |-> F(seq[k])])

OccurrenceCount(lr) == Cardinality(DOMAIN lr.matches)
MatchCountOf(fr) == fr.matchCount

C10_CountsConsistent ==
  /\ (IsDirectory /\ ReturnedSummary) =>
       /\ Summary.filesMatched = Len(Summary.results)
       /\ Summary.totalMatches = SumOver(Summary.results, MatchCountOf)
       /\ \A f \in 1..Len(Summary.results) :
            LET fr == Summary.results[f]
            IN /\ fr.matchCount = SumOver(fr.results, OccurrenceCount)
               /\ Len(fr.results) >= 1
               /\ \A k \in 1..Len(fr.results) : Len(fr.results[k].matches) >= 1
  /\ (IsDirectory /\ pc \in {"readdir", "entry", "readfile", "summary"}) =>
       totalMatches = SumOver(results, MatchCountOf)
  /\ (IsSearch /\ ReturnedSummary) =>
       /\ Summary.totalMatches = SumOver(Summary.results, OccurrenceCount)
       /\ \A k \in 1..Len(Summary.results) :
            Len(Summary.results[k].matches) >= 1

C10_Witness ==
  /\ IsDirectory
  /\ ReturnedSummary
  /\ Summary.filesMatched = 3
  /\ Summary.totalMatches = 7
  /\ Summary.results[1].matchCount = 3
  /\ Len(Summary.results[1].results) = 2

\* ---------------------------------------------------------------------- C5
\* C5: a directory walk over a tree whose only faults are unreadable
\* eligible files returns the summary of the same tree with those files
\* removed: the same FileResults in enumeration order, the same
\* filesMatched and totalMatches, and no entry for an unreadable file.

\* The occurrences of a line as a finished scan reports them: the successive
\* leftmost matches, only the first one without the global flag.
RECURSIVE RefOccurrences(_, _)
RefOccurrences(line, from) ==
  LET starts == {s \in MatchStarts(line) : s >= from}
      s0 == CHOOSE s \in starts : \A t \in starts : s <= t
      e0 == MatchItems(Regex.items, 1, line, s0, IgnoreCase)
      occ == [matchText |-> SubSeq(line, s0 + 1, e0), column |-> s0 + 1]
  IN IF starts = {} THEN <<>>
     ELSE IF ~Global THEN <<occ>>
     ELSE <<occ>> \o RefOccurrences(line, IF e0 = s0 THEN e0 + 1 ELSE e0)

RECURSIVE RefLineResults(_, _)
RefLineResults(ls, i) ==
  IF i > Len(ls) THEN <<>>
  ELSE LET occ == RefOccurrences(ls[i], 0)
       IN (IF occ = <<>> THEN <<>>
           ELSE <<[lineNumber |-> i, content |-> ls[i], matches |-> occ]>>)
          \o RefLineResults(ls, i + 1)

\* The FileResults of a fault-free walk of directory dir of filesystem f,
\* from its i-th entry on, depth first in enumeration order.  A pattern that
\* does not compile yields no FileResult (its error is dropped per file).
RECURSIVE RefWalk(_, _, _)
RefWalk(f, dir, i) ==
  IF i > Len(f[dir].entries) THEN <<>>
  ELSE
    LET name == f[dir].entries[i]
        p == Append(dir, name)
        lrs == RefLineResults(Split(f[p].content), 1)
        here ==
          IF f[p].kind = "dir"
            THEN IF HiddenOrDependency(name) \/ ~f[p].ok THEN <<>>
                 ELSE RefWalk(f, p, 1)
          ELSE IF f[p].kind = "file" /\ f[p].ok /\ Regex.ok
                  /\ Includes(ExtensionsOf(args), ExtName(name))
            THEN IF lrs = <<>> THEN <<>>
                 ELSE <<[file |-> p,
                         matchCount |-> SumOver(lrs, OccurrenceCount),
                         results |-> lrs]>>
          ELSE <<>>
    IN here \o RefWalk(f, dir, i + 1)

\* Filesystem f with the entry at path p removed.
Without(f, p) ==
  LET parent == SubSeq(p, 1, Len(p) - 1)
      keep(n) == n # p[Len(p)]
  IN [q \in (DOMAIN f) \ {p} |->
        IF q = parent THEN [f[q] EXCEPT !.entries = SelectSeq(@, keep)]
                      ELSE f[q]]

RECURSIVE WithoutAll(_, _)
WithoutAll(f, S) ==
  IF S = {} THEN f
  ELSE LET p == CHOOSE q \in S : TRUE
       IN WithoutAll(Without(f, p), S \ {p})

BelowTarget == {p \in DOMAIN fsys : IsPrefix(Target, p) /\ p # Target}

\* The unreadable files the walk reaches.
UnreadableEligible ==
  {p \in BelowTarget : /\ fsys[p].kind = "file"
                       /\ ~fsys[p].ok
                       /\ FileOKFrom(Target, p)}

OnlyReadFaults ==
  /\ TargetExists
  /\ ~ReaddirThrows(fsys, Target)
  /\ \A p \in BelowTarget :
       /\ fsys[p].kind # "dangling"
       /\ fsys[p].kind = "dir" => fsys[p].ok

C5_UnreadableFileSkipped ==
  (IsDirectory /\ Returned /\ OnlyReadFaults /\ UnreadableEligible # {}) =>
    /\ ~response.isError
    /\ LET expected == RefWalk(WithoutAll(fsys, UnreadableEligible), Target, 1)
       IN /\ Summary.results = expected
          /\ Summary.filesMatched = Len(expected)
          /\ Summary.totalMatches = SumOver(expected, MatchCountOf)
    /\ \A k \in 1..Len(Summary.results) :
         Summary.results[k].file \notin UnreadableEligible

C5_Witness ==
  /\ IsDirectory
  /\ ReturnedSummary
  /\ OnlyReadFaults
  /\ UnreadableEligible = {Target \o <<Lib, Bjs>>}
  /\ Target \o <<Lib, Bjs>> \in CallsOf("readFileSync")
  /\ Len(Summary.results) = 2
  /\ Summary.results[1].file = Target \o <<Atxt>>
  /\ Summary.results[2].file = Target \o <<Zmd>>
  /\ Summary.totalMatches = 4

====
